---- MODULE Spec2Model ----
(***************************************************************************)
(* A model of the saber game (js/saber.js, js/geometry.js, js/math.js).    *)
(*                                                                         *)
(* Real numbers are carried in fixed point: positions in canvas units,     *)
(* velocities in units per second, times in milliseconds (the loop hands   *)
(* Game.step the elapsed milliseconds divided by 1000), angles in          *)
(* milliradians, angular velocities in milliradians per second, and unit   *)
(* vectors, sines and cosines in thousandths.  Every operator below is the *)
(* source's computation in that representation.                            *)
(***************************************************************************)
EXTENDS Integers, Sequences, FiniteSets, TLC

(***************************************************************************)
(* Program constants (js/saber.js lines 5-23).                             *)
(***************************************************************************)
GRAVITY == 500
MAX_LIVES == 3
NEW_LIFE_EVERY_N_POINTS == 10
SABER_DRAG == 2
\* Math.PI / (2 * TIMESTEP) = 30 * pi rad/s, in milliradians per second
ANG_VEL_MAX == 94248
\* 1.0 s, in milliseconds
SABER_HURT_TIME == 1000
MIN_NUM_BALLS == 0
MAX_NUM_BALLS == 10
NEW_BALL_EVERY_N_POINTS == 10
RADIUS == 10
\* 0.1 s, in milliseconds
BALL_DYING_TIME == 100
\* 0.001, in thousandths
BALL_DRAG == 1
DAMAGE_SPEED == 1000
\* Math.PI, in milliradians
PI == 3142

(***************************************************************************)
(* The canvas: main() makes it square, canvas.offsetWidth wide.            *)
(***************************************************************************)
Width == 400
Height == Width

(***************************************************************************)
(* Bounds of the model.                                                    *)
(***************************************************************************)
\* the number of loop iterations (animation frames) a run follows
MaxFrames == 2

(***************************************************************************)
(* Arithmetic helpers.                                                     *)
(***************************************************************************)
Abs(a) == IF a < 0 THEN -a ELSE a
Min(a, b) == IF a < b THEN a ELSE b
Max(a, b) == IF a > b THEN a ELSE b

\* a / b rounded to the nearest integer (b > 0), halves away from zero
RDiv(a, b) == IF a >= 0 THEN (2 * a + b) \div (2 * b)
                        ELSE -((2 * (-a) + b) \div (2 * b))

\* floor of the square root of a >= 0, by bisection on [lo, hi]
RECURSIVE SqrtSearch(_, _, _)
SqrtSearch(a, lo, hi) ==
    IF lo >= hi THEN lo
    ELSE LET mid == (lo + hi + 1) \div 2
         IN  IF mid * mid <= a THEN SqrtSearch(a, mid, hi)
                               ELSE SqrtSearch(a, lo, mid - 1)

Isqrt(a) == SqrtSearch(a, 0, 46340)

(***************************************************************************)
(* Math.sin and Math.cos of an angle in milliradians, in thousandths:      *)
(* the angle is reduced to the first quadrant and the Taylor series is     *)
(* summed in fixed point.                                                  *)
(***************************************************************************)
SinQ(x) ==
    LET x2 == RDiv(x * x, 1000)
        t3 == RDiv(x * x2, 1000)
        t5 == RDiv(t3 * x2, 1000)
        t7 == RDiv(t5 * x2, 1000)
    IN  x - RDiv(t3, 6) + RDiv(t5, 120) - RDiv(t7, 5040)

CosQ(x) ==
    LET x2 == RDiv(x * x, 1000)
        x4 == RDiv(x2 * x2, 1000)
        x6 == RDiv(x4 * x2, 1000)
        x8 == RDiv(x6 * x2, 1000)
    IN  1000 - RDiv(x2, 2) + RDiv(x4, 24) - RDiv(x6, 720) + RDiv(x8, 40320)

\* the angle reduced to [0, 2*pi)
Turn(a) == a % (2 * PI)

Sin(a) ==
    LET t == Turn(a)
        h == PI \div 2
    IN  IF t <= h THEN SinQ(t)
        ELSE IF t <= PI THEN SinQ(PI - t)
        ELSE IF t <= PI + h THEN -SinQ(t - PI)
        ELSE -SinQ(2 * PI - t)

Cos(a) ==
    LET t == Turn(a)
        h == PI \div 2
    IN  IF t <= h THEN CosQ(t)
        ELSE IF t <= PI THEN -CosQ(PI - t)
        ELSE IF t <= PI + h THEN -CosQ(t - PI)
        ELSE CosQ(2 * PI - t)

\* one turn taken off an angle above pi, angles below -pi left alone
wrapToPiAbove(x) == IF x > PI THEN x - 2 * PI ELSE x

\* wrapToPi (js/math.js)
RECURSIVE wrapToPi(_)
wrapToPi(x) ==
    IF x > PI THEN wrapToPi(x - 2 * PI)
    ELSE IF x < -PI THEN wrapToPi(x + 2 * PI)
    ELSE x

(***************************************************************************)
(* Vec2 (js/math.js).                                                      *)
(***************************************************************************)
Vec2(x, y) == [x |-> x, y |-> y]
Zero == Vec2(0, 0)
Add(a, b) == Vec2(a.x + b.x, a.y + b.y)
Subtract(a, b) == Vec2(a.x - b.x, a.y - b.y)
Negate(a) == Vec2(-a.x, -a.y)
Dot(a, b) == a.x * b.x + a.y * b.y
Orth(a) == Vec2(a.y, -a.x)
\* scale by the rational num / den
Scale(a, num, den) == Vec2(RDiv(a.x * num, den), RDiv(a.y * num, den))
\* Math.sqrt(this.dot(this)), rounded down
Length(a) == Isqrt(Dot(a, a))
\* length() < d for an integer d, decided on the squares (no rounding)
ShorterThan(a, d) == Dot(a, a) < d * d
\* unit(), in thousandths: the zero vector is returned unchanged; the
\* length is taken to a thousandth for a short vector and to a tenth
\* otherwise
Unit(a) ==
    LET q == Dot(a, a)
        d == Isqrt(100 * q)
        f == Isqrt(1000000 * q)
    IN  IF q = 0 THEN a
        ELSE IF q <= 2000
        THEN Vec2(RDiv(1000000 * a.x, f), RDiv(1000000 * a.y, f))
        ELSE Vec2(RDiv(10000 * a.x, d), RDiv(10000 * a.y, d))

(***************************************************************************)
(* js/geometry.js.  The points are on the integer grid, so the tests are   *)
(* decided exactly: a projection on a unit axis, dot(v, unit(d)), exceeds  *)
(* radius exactly when dot(v, d) exceeds radius * |d|.                     *)
(***************************************************************************)
\* the vertices left in the order given
windQuadAsGiven(vertices) == vertices

windQuad(vertices) ==
    LET v1 == vertices[1]
        v2 == vertices[2]
        v3 == vertices[3]
        v4 == vertices[4]
        n12 == Orth(Subtract(v2, v1))
        d3 == Dot(n12, Subtract(v3, v1))
        d4 == Dot(n12, Subtract(v4, v1))
        n23 == Orth(Subtract(v3, v2))
        n13 == Orth(Subtract(v3, v1))
    IN  IF d3 >= 0 /\ d4 >= 0
        THEN IF Dot(n23, Subtract(v4, v2)) >= 0 THEN <<v1, v2, v3, v4>>
                                                ELSE <<v1, v2, v4, v3>>
        ELSE IF d3 <= 0 /\ d4 <= 0
        THEN IF Dot(n13, Subtract(v4, v1)) >= 0 THEN <<v1, v3, v4, v2>>
                                                ELSE <<v1, v4, v3, v2>>
        ELSE IF d3 > d4 THEN <<v1, v4, v2, v3>>
                        ELSE <<v1, v3, v2, v4>>

\* the least and greatest of the vertices' projections on direction, each
\* times |direction| (direction is not normalised here)
RECURSIVE ProjectFrom(_, _, _, _, _, _)
ProjectFrom(vertices, direction, origin, k, lo, hi) ==
    IF k > Len(vertices) THEN <<lo, hi>>
    ELSE LET value == Dot(Subtract(vertices[k], origin), direction)
         IN  ProjectFrom(vertices, direction, origin, k + 1,
                         IF value < lo THEN value ELSE lo,
                         IF value > hi THEN value ELSE hi)

projectOnAxis(vertices, direction, origin) ==
    LET first == Dot(Subtract(vertices[1], origin), direction)
    IN  ProjectFrom(vertices, direction, origin, 2, first, first)

\* a projection that separates when it is positive and below radius
ExceedsWithin(m, radius, d) ==
    m > 0 /\ m <= 46340 /\ m * m < radius * radius * Dot(d, d)

\* m / |d| > radius, for radius >= 0, decided on the squares; a square
\* past 46340^2 is past every radius^2 * |d|^2 the integers hold
Exceeds(m, radius, d) ==
    m > 0 /\ (m > 46340 \/ m * m > radius * radius * Dot(d, d))

\* the outward normal of a quad edge separates seg from the quad
EdgeSeparates(from, to, seg, radius) ==
    LET n == Negate(Orth(Subtract(to, from)))
        values == projectOnAxis(seg, n, from)
    IN  Exceeds(values[1], radius, n)

quadSegmentIntersect(quad, seg, radius) ==
    LET s == Subtract(seg[2], seg[1])
        n == Orth(s)
        values == projectOnAxis(quad, n, seg[1])
    IN  IF Dot(s, s) > 0 /\ (Exceeds(values[1], radius, n)
                               \/ Exceeds(-values[2], radius, n))
        THEN FALSE
        ELSE IF \E i \in 1..3 : EdgeSeparates(quad[i], quad[i + 1], seg, radius)
        THEN FALSE
        ELSE IF EdgeSeparates(quad[4], quad[1], seg, radius)
        THEN FALSE
        ELSE TRUE

(***************************************************************************)
(* Math.random(): a draw is a numerator k of k / RandDen in [0, 1).        *)
(* A respawn consumes four draws: position x, y and velocity x, y.         *)
(***************************************************************************)
RandDen == 4

\* four outcomes of Math.random(), as numerators over RandDen
Draw(px, py, vx, vy) ==
    [px |-> px, py |-> py, vx |-> vx, vy |-> vy, den |-> RandDen]

\* the candidate position of Ball.respawn for the draws px, py
RespawnPos(d) ==
    Vec2(RADIUS + RDiv(d.px * (Width - 2 * RADIUS), d.den),
         RADIUS + RDiv(d.py * Height, 2 * d.den))

\* 2000 * (Math.random() - 0.5)
RespawnVel(d) ==
    Vec2(RDiv(2000 * (2 * d.vx - d.den), 2 * d.den),
         RDiv(2000 * (2 * d.vy - d.den), 2 * d.den))

screenCenter == Vec2(Width \div 2, Height \div 2)

\* a do-while of Ball.respawn that takes its first candidate
RejectedNever(d) == FALSE

\* the do-while of Ball.respawn ends on a candidate that is not closer
\* than xMax / 3 to the centre of the screen: |p - c| < xMax / 3 is
\* decided as 9 * |p - c|^2 < xMax^2
Rejected(d) ==
    LET delta == Subtract(RespawnPos(d), screenCenter)
    IN  9 * Dot(delta, delta) < Width * Width

Accepted(d) == ~Rejected(d)

(***************************************************************************)
(* Ball.                                                                   *)
(***************************************************************************)
\* Ball.respawn without the health reset
respawnWounded(b, d) ==
    [b EXCEPT !.dying = FALSE,
              !.dyingTime = 0,
              !.inCollision = FALSE,
              !.pos = RespawnPos(d),
              !.lastPos = RespawnPos(d),
              !.vel = RespawnVel(d)]

\* Ball.respawn, d being the draws of the last pass of its do-while
respawn(b, d) ==
    [b EXCEPT !.dying = FALSE,
              !.dyingTime = 0,
              !.health = 3,
              !.inCollision = FALSE,
              !.pos = RespawnPos(d),
              !.lastPos = RespawnPos(d),
              !.vel = RespawnVel(d)]

\* new Ball(...): respawn, then the velocity is zeroed
NewBall(d, enabled) ==
    [respawn([enabled |-> enabled, dying |-> FALSE, dyingTime |-> 0,
              health |-> 3, inCollision |-> FALSE, pos |-> Zero,
              lastPos |-> Zero, vel |-> Zero], d)
     EXCEPT !.vel = Zero]

\* Bumper: the unit normal (in thousandths), its orth(), and vertices[0]
Bumper(normal, origin) ==
    [normal |-> Unit(normal), orth |-> Orth(Unit(normal)), origin |-> origin]

\* Game.constructor: bw = 0.4 * width, bh = 0.15 * height
bw == (4 * Width) \div 10
bh == (15 * Height) \div 100
bumpers ==
    << Bumper(Vec2(-bh, bw), Vec2(0, Height - bh)),
       Bumper(Vec2(bh, bw), Vec2(Width - bw, Height)) >>

\* the penetration d of ball b into bumper k, in thousandths of a unit
Penetration(b, k) ==
    Dot(Subtract(b.pos, bumpers[k].origin), bumpers[k].normal) + 1000 * RADIUS

\* the body of the bumper loop for the bumper k that is hit
HitBumper(b, k) ==
    LET bumper == bumpers[k]
        d == Penetration(b, k)
        vdn == RDiv(Dot(b.vel, bumper.normal), 1000)
        vdu == RDiv(Dot(b.vel, bumper.orth), 1000)
        vn == Scale(bumper.normal, vdn, 1000)
        vu == Scale(bumper.orth, vdu, 1000)
    IN  [b EXCEPT !.pos = Subtract(b.pos, Scale(bumper.normal, d, 1000000)),
                  !.vel = IF Dot(b.vel, bumper.normal) > 0
                          THEN Add(Negate(vn), vu) ELSE b.vel]

\* the bumper loop without the break: every bumper the ball has come to
\* penetrate is resolved, in list order
RECURSIVE CollideFrom(_, _)
CollideFrom(b, k) ==
    IF k > Len(bumpers) THEN b
    ELSE CollideFrom(IF Penetration(b, k) > 0 THEN HitBumper(b, k) ELSE b,
                     k + 1)

CollideBumpersAll(b) == CollideFrom(b, 1)

\* the bumper loop: the first bumper with d > 0 is resolved, then break
CollideBumpers(b) ==
    LET hit == {k \in DOMAIN bumpers : Penetration(b, k) > 0}
    IN  IF hit = {} THEN b
        ELSE HitBumper(b, CHOOSE k \in hit : \A j \in hit : k <= j)

\* left and right edges of the screen
CollideX(b) ==
    IF b.pos.x < RADIUS
    THEN [b EXCEPT !.pos.x = RADIUS,
                   !.vel.x = IF b.vel.x < 0 THEN -b.vel.x ELSE b.vel.x]
    ELSE IF b.pos.x > Width - RADIUS
    THEN [b EXCEPT !.pos.x = Width - RADIUS,
                   !.vel.x = IF b.vel.x > 0 THEN -b.vel.x ELSE b.vel.x]
    ELSE b

\* the ball leaves through the bottom edge: Ball.collide respawns it
FallsOut(b) == b.pos.y > Height + RADIUS

\* top edge, and the bottom edge, where the ball respawns with draws d
CollideY(b, d) ==
    IF b.pos.y < RADIUS
    THEN [b EXCEPT !.pos.y = RADIUS,
                   !.vel.y = IF b.vel.y < 0 THEN -b.vel.y ELSE b.vel.y]
    ELSE IF FallsOut(b) THEN respawn(b, d)
    ELSE b

\* Ball.collide
collide(b, d) ==
    IF ~b.enabled \/ b.dying THEN b
    ELSE CollideY(CollideX(CollideBumpers(b)), d)

\* whether Ball.collide will call respawn
CollideRespawns(b) ==
    b.enabled /\ ~b.dying /\ FallsOut(CollideX(CollideBumpers(b)))

\* the drag coefficient c of Ball.updateVelocity (lines 146-149)
Drag(b) == IF b.dying THEN BALL_DRAG * 10 ELSE BALL_DRAG

\* the body of Ball.updateVelocity past its guard (lines 145-152)
Accelerated(b, dt) ==
    LET drag == Scale(Scale(b.vel, Length(b.vel), 1000), Drag(b), 1)
        acc == Subtract(Vec2(0, GRAVITY), drag)
    IN  [b EXCEPT !.vel = Add(b.vel, Scale(acc, dt, 1000))]

\* Ball.updateVelocity on every ball, enabled or not
updateVelocityAll(b, dt) == Accelerated(b, dt)

\* Ball.updateVelocity; dt in milliseconds
updateVelocity(b, dt) == IF ~b.enabled THEN b ELSE Accelerated(b, dt)

\* the dying time over at the limit already
ExpiredAtLimit(b) == b.dyingTime >= BALL_DYING_TIME

\* the test that ends the dying time (line 161)
Expired(b) == b.dyingTime > BALL_DYING_TIME

\* whether Ball.updatePosition will call respawn
PositionRespawns(b, dt) ==
    b.enabled /\ b.dying /\ Expired([b EXCEPT !.dyingTime = b.dyingTime + dt])

\* Ball.updatePosition
updatePosition(b, dt, d) ==
    IF ~b.enabled THEN b
    ELSE LET b1 == IF b.dying THEN [b EXCEPT !.dyingTime = b.dyingTime + dt]
                              ELSE b
             b2 == IF b1.dying /\ Expired(b1) THEN respawn(b1, d) ELSE b1
         IN  [b2 EXCEPT !.lastPos = b2.pos,
                        !.pos = Add(b2.pos, Scale(b2.vel, dt, 1000))]

\* Ball.computeSweptRegion
ballSweptRegion(b, dt) == <<b.pos, Add(b.pos, Scale(b.vel, dt, 1000))>>

(***************************************************************************)
(* Saber.                                                                  *)
(***************************************************************************)
\* Game.constructor: 0.175 * width, or 0.25 * width on a narrow screen
saberLength == IF Width < 500 THEN Width \div 4 ELSE (175 * Width) \div 1000

computeSaberPoint(position, angle, length) ==
    Vec2(position.x - RDiv(length * Sin(angle), 1000),
         position.y - RDiv(length * Cos(angle), 1000))

computeVelocityAlongSaber(baseVel, angle, angVel, length) ==
    LET x == -RDiv(length * Sin(angle), 1000)
        y == -RDiv(length * Cos(angle), 1000)
        r == Vec2(y, -x)
    IN  Add(baseVel, Scale(r, angVel, 1000))

NewSaber(pos) ==
    [pos |-> pos, vel |-> Zero, angle |-> 0, angVel |-> 0, grab |-> FALSE,
     pvs |-> <<>>, hurt |-> FALSE, hurtTime |-> 0]

\* the clamp on the positive side only
LimitAngVelAbove(w) == IF w > ANG_VEL_MAX THEN ANG_VEL_MAX ELSE w

\* the clamp at the end of Saber.updateVelocity
LimitAngVel(w) ==
    IF w > ANG_VEL_MAX THEN ANG_VEL_MAX
    ELSE IF w < -ANG_VEL_MAX THEN -ANG_VEL_MAX
    ELSE w

\* Saber.updateVelocity with the pendulum swinging whether grabbed or not
saberUpdateVelocitySwinging(s, tgt, dt) ==
    LET newVel == Scale(Subtract(tgt, s.pos), 1000, dt)
        acc == Scale(Subtract(newVel, s.vel), 1000, dt)
        angAcc == RDiv(acc.x * Cos(s.angle) + (GRAVITY - acc.y) * Sin(s.angle),
                       saberLength)
                  - SABER_DRAG * s.angVel
        angVel == s.angVel + RDiv(dt * angAcc, 1000)
    IN  [s EXCEPT !.vel = newVel, !.angVel = LimitAngVel(angVel)]

\* Saber.updateVelocity
saberUpdateVelocity(s, tgt, dt) ==
    LET newVel == Scale(Subtract(tgt, s.pos), 1000, dt)
        acc == Scale(Subtract(newVel, s.vel), 1000, dt)
        angAcc == RDiv(acc.x * Cos(s.angle) + (GRAVITY - acc.y) * Sin(s.angle),
                       saberLength)
                  - SABER_DRAG * s.angVel
        angVel == IF ~s.grab THEN s.angVel + RDiv(dt * angAcc, 1000) ELSE 0
    IN  [s EXCEPT !.vel = newVel, !.angVel = LimitAngVel(angVel)]

\* Saber.updatePosition
saberUpdatePosition(s, tgt, dt) ==
    LET hurtTime == s.hurtTime + dt
    IN  [s EXCEPT !.pos = tgt,
                  !.angle = wrapToPi(s.angle + RDiv(dt * s.angVel, 1000)),
                  !.hurtTime = IF ~s.hurt THEN s.hurtTime
                               ELSE IF hurtTime > SABER_HURT_TIME THEN 0
                               ELSE hurtTime,
                  !.hurt = s.hurt /\ ~(hurtTime > SABER_HURT_TIME)]

\* Saber.computeSweptRegion: the wound quad and the direction u (in
\* thousandths); start and end are kept doubled, unit() being the same
saberSweptRegion(s, tgt, dt) ==
    LET pv1 == s.pos
        pv2 == tgt
        pv3 == computeSaberPoint(s.pos, s.angle, saberLength)
        pv4 == computeSaberPoint(tgt, s.angle + RDiv(dt * s.angVel, 1000),
                                 saberLength)
        start == Add(pv1, pv2)
        end == Add(pv3, pv4)
    IN  [pvs |-> windQuad(<<pv1, pv2, pv3, pv4>>),
         u |-> Unit(Subtract(end, start))]

(***************************************************************************)
(* Game and main().                                                        *)
(***************************************************************************)
VARIABLES
    started,    \* game.started
    done,       \* game.done (game over)
    freeplay,   \* game.freeplay, kept equal to freeplayBox.checked
    score,      \* game.score
    lives,      \* game.lives
    numBalls,   \* game.numBalls
    saber,      \* game.saber
    balls,      \* game.balls, indexed from 0
    target,     \* main's target, the last pointer position
    frame,      \* the number of loop iterations the run has followed
    log,        \* what the collision loop of the last Game.step did, per ball
    sinceLoss,  \* the dt of the position commits since the last life loss,
                \* summed; -1 before the first loss
    probe       \* the arguments and the result of a geometry function
                \* called on its own

vars == <<started, done, freeplay, score, lives, numBalls, saber, balls,
          target, frame, log, sinceLoss, probe>>

BallIds == 0 .. MAX_NUM_BALLS - 1

\* What the log keeps of the callback of an enabled ball: the fields the
\* callback found (dying, latch, healthBefore, hurtBefore, livesBefore,
\* scoreBefore, numBallsBefore) and left (health, marked for the ball's dying flag, hurt,
\* lives, score, numBalls, done), the ball's place when it ran (near the
\* hilt, overlap of its swept segment and the swept quad), the hitSpeed it
\* computed, whether it reached the intersection test (tested), the dt of
\* the step, the contact of an intersecting ball (u, n, vpn, vbn and the
\* velocity vel the ball came with), and what the first
\* loop of the step did for the ball (prepared: it went through collide and
\* updateVelocity enabled; fresh: it respawned in collide).
NoEntry ==
    [dying |-> FALSE, latch |-> FALSE, healthBefore |-> 0,
     hurtBefore |-> FALSE, livesBefore |-> 0, scoreBefore |-> 0,
     numBallsBefore |-> 0,
     health |-> 0, marked |-> FALSE, hurt |-> FALSE, lives |-> 0,
     score |-> 0, numBalls |-> 0, done |-> FALSE,
     near |-> FALSE, overlap |-> FALSE, hitSpeed |-> 0, tested |-> FALSE,
     prepared |-> FALSE, fresh |-> FALSE, dt |-> 0,
     u |-> Zero, n |-> Zero, vpn |-> 0, vbn |-> 0, vel |-> Zero]

\* no step yet, or a step that returned at once
NoLog == [i \in {} |-> NoEntry]

\* log with the entry e for ball i
Logged(l, i, e) == [k \in DOMAIN l \cup {i} |-> IF k = i THEN e ELSE l[k]]

\* the player-damage test of the collision loop (lines 378-379)
NearHilt(s, b) == ShorterThan(Subtract(s.pos, b.pos), 2 * RADIUS)

\* the contact computed when the swept regions intersect (lines 392-412):
\* the normal n (in thousandths) and the speeds along it
Contact(s, b, u) ==
    LET dist == RDiv(Dot(Subtract(b.pos, s.pos), u), 1000)
        vp == computeVelocityAlongSaber(s.vel, s.angle, s.angVel, dist)
        n0 == Orth(u)
        n == IF Dot(Subtract(b.pos, s.pos), n0) < 0 THEN Negate(n0) ELSE n0
        vpn == RDiv(Dot(n, vp), 1000)
        vbn == RDiv(Dot(n, b.vel), 1000)
    IN  [n |-> n, vpn |-> vpn, vbn |-> vbn, hitSpeed |-> Abs(vpn - vbn)]

\* the damage test with the threshold excluded
DamagesAbove(b, hitSpeed) == ~b.inCollision /\ hitSpeed > DAMAGE_SPEED

\* the damage test without the latch
DamagesLatched(b, hitSpeed) == hitSpeed >= DAMAGE_SPEED

\* the damage test (line 413)
Damages(b, hitSpeed) == ~b.inCollision /\ hitSpeed >= DAMAGE_SPEED

\* a response that reflects the ball whatever the speed of the blade
RespondReflecting(b, u, c) ==
    IF c.vbn < c.vpn
    THEN LET vu == Scale(u, RDiv(Dot(u, b.vel), 1000), 1000)
             vn == Scale(c.n, -c.vbn, 1000)
         IN  [b EXCEPT !.vel = Add(vu, vn)]
    ELSE b

\* the velocity response (lines 430-434)
Respond(b, u, c) ==
    IF c.vbn < c.vpn
    THEN LET vu == Scale(u, RDiv(Dot(u, b.vel), 1000), 1000)
             vn == Scale(c.n, Max(c.vpn, -c.vbn), 1000)
         IN  [b EXCEPT !.vel = Add(vu, vn)]
    ELSE b

\* the ball unlock at every kill
UnlockBallEveryKill(g) ==
    IF g.numBalls < MAX_NUM_BALLS
    THEN [g EXCEPT !.balls[g.numBalls].enabled = TRUE,
                   !.numBalls = g.numBalls + 1]
    ELSE g

\* the score-driven unlocks after a kill (lines 418-425), on the game
\* fields g with the score already incremented
UnlockBall(g) ==
    IF g.score % NEW_BALL_EVERY_N_POINTS = 0 /\ g.numBalls < MAX_NUM_BALLS
    THEN [g EXCEPT !.balls[g.numBalls].enabled = TRUE,
                   !.numBalls = g.numBalls + 1]
    ELSE g

\* the life restored without the cap
RestoreLifeUncapped(g) ==
    IF g.score % NEW_LIFE_EVERY_N_POINTS = 0
    THEN [g EXCEPT !.lives = g.lives + 1]
    ELSE g

RestoreLife(g) ==
    IF g.score % NEW_LIFE_EVERY_N_POINTS = 0
    THEN [g EXCEPT !.lives = Min(g.lives + 1, MAX_LIVES)]
    ELSE g

\* the life loss that ends the game only below zero lives
LoseLifeBelowZero(g) ==
    [g EXCEPT !.saber.hurt = TRUE,
              !.lives = g.lives - 1,
              !.done = IF g.lives - 1 < 0 THEN TRUE ELSE g.done]

\* the life loss (lines 380-383)
LoseLife(g) ==
    [g EXCEPT !.saber.hurt = TRUE,
              !.lives = g.lives - 1,
              !.done = IF g.lives - 1 <= 0 THEN TRUE ELSE g.done]

\* the hilt hit whether or not the saber is hurt
HiltHitWhileHurt(g, b, fp) == ~fp /\ NearHilt(g.saber, b)

\* the hilt hit whether or not the game is in freeplay
HiltHitInFreeplay(g, b, fp) == ~g.saber.hurt /\ NearHilt(g.saber, b)

\* whether the hilt is hit by ball b (line 378)
HiltHit(g, b, fp) == ~fp /\ ~g.saber.hurt /\ NearHilt(g.saber, b)

\* the callback passing over the disabled balls only
SkippedDisabled(b) == ~b.enabled

\* the balls the callback passes over (lines 374-376)
Skipped(b) == ~b.enabled \/ b.dying

\* the callback of the collision loop for ball i (lines 373-437); g holds
\* the fields of the game it reads and writes, sw the saber's swept region;
\* the entry it logs holds what it computed
Visit(g, i, sw, dt, fp) ==
    LET b == g.balls[i]
        over == quadSegmentIntersect(sw.pvs, ballSweptRegion(b, dt), RADIUS)
        e0 == [NoEntry EXCEPT !.overlap = over,
                              !.near = NearHilt(g.saber, b),
                              !.dt = dt]
    IN  IF Skipped(b)
        THEN IF b.enabled THEN [g EXCEPT !.log = Logged(g.log, i, e0)]
             ELSE g
        ELSE
        LET hit == HiltHit(g, b, fp)
            g1 == IF hit THEN LoseLife(g) ELSE g
        IN  IF hit /\ g1.lives <= 0
            THEN [g1 EXCEPT !.log = Logged(g.log, i, e0)]
            ELSE
            LET c == Contact(g1.saber, b, sw.u)
                dmg == over /\ Damages(b, c.hitSpeed)
                health == IF dmg THEN b.health - 1 ELSE b.health
                e1 == IF over
                      THEN [e0 EXCEPT !.tested = TRUE,
                                      !.hitSpeed = c.hitSpeed,
                                      !.u = sw.u, !.n = c.n, !.vpn = c.vpn,
                                      !.vbn = c.vbn, !.vel = b.vel]
                      ELSE [e0 EXCEPT !.tested = TRUE]
            IN  IF dmg /\ health <= 0
                THEN LET g2 == [g1 EXCEPT !.score = g1.score + 1,
                                          !.balls[i].health = health,
                                          !.balls[i].dying = TRUE]
                     IN  [RestoreLife(UnlockBall(g2)) EXCEPT
                              !.log = Logged(g.log, i, e1)]
                ELSE LET b1 == [b EXCEPT !.health = health]
                         b2 == IF over THEN Respond(b1, sw.u, c) ELSE b1
                     IN  [g1 EXCEPT !.balls[i] =
                                        [b2 EXCEPT !.inCollision = over],
                                    !.log = Logged(g.log, i, e1)]

\* the entry of ball i completed with the fields of the game before (g) and
\* after (h) its callback
Observed(g, h, i, prep, rc) ==
    IF i \notin DOMAIN h.log THEN h
    ELSE [h EXCEPT !.log[i] =
            [@ EXCEPT !.dying = g.balls[i].dying,
                      !.latch = g.balls[i].inCollision,
                      !.healthBefore = g.balls[i].health,
                      !.hurtBefore = g.saber.hurt,
                      !.livesBefore = g.lives,
                      !.scoreBefore = g.score,
                      !.numBallsBefore = g.numBalls,
                      !.health = h.balls[i].health,
                      !.marked = h.balls[i].dying,
                      !.hurt = h.saber.hurt,
                      !.lives = h.lives,
                      !.score = h.score,
                      !.numBalls = h.numBalls,
                      !.done = h.done,
                      !.prepared = i \in prep,
                      !.fresh = i \in rc]]

\* the element of a set of one: {f(x) : x \in {e}} computes e once, where
\* LET x == e computes it at every use of x
Only(S) == CHOOSE r \in S : TRUE

\* balls.forEach: the callback for the balls i, i + 1, ... in index order
RECURSIVE VisitFrom(_, _, _, _, _, _, _)
VisitFrom(g, i, sw, dt, fp, prep, rc) ==
    IF i >= MAX_NUM_BALLS THEN g
    ELSE Only({VisitFrom(h, i + 1, sw, dt, fp, prep, rc) :
                  h \in {Observed(g, v, i, prep, rc) :
                            v \in {Visit(g, i, sw, dt, fp)}}})

\* Game.step(target, dt) past its guard and up to the position updates
\* (lines 365-437), on the game fields g; rc gives the draws of the balls
\* that respawn in collide
StepCollide(g, tgt, dt, fp, rc) ==
    Only({VisitFrom([g0 EXCEPT !.saber = [s1 EXCEPT !.pvs = sw.pvs],
                               !.balls = bs1,
                               !.log = NoLog],
                    0, sw, dt, fp, prep, fresh) :
            g0 \in {g},
            s1 \in {saberUpdateVelocity(g.saber, tgt, dt)},
            sw \in {saberSweptRegion(saberUpdateVelocity(g.saber, tgt, dt),
                                     tgt, dt)},
            bs1 \in {[i \in BallIds |->
                        updateVelocity(collide(g.balls[i], rc[i]), dt)]},
            prep \in {{i \in BallIds :
                         g.balls[i].enabled /\ ~g.balls[i].dying}},
            fresh \in {{i \in BallIds : CollideRespawns(g.balls[i])}}})

\* the position updates that end Game.step (lines 440-441); rp gives the
\* draws of the balls that respawn in updatePosition
StepCommit(g, tgt, dt, rp) ==
    [g EXCEPT !.saber = saberUpdatePosition(g.saber, tgt, dt),
              !.balls = [i \in BallIds |->
                            updatePosition(g.balls[i], dt, rp[i])]]

\* the game fields Game.step works on
GameFields ==
    [saber |-> saber, balls |-> balls, score |-> score, lives |-> lives,
     numBalls |-> numBalls, done |-> done, log |-> log]

(***************************************************************************)
(* The inputs the model follows.                                           *)
(***************************************************************************)
\* pointer positions: two places on the left of the screen
Targets == {Vec2(100, 150), Vec2(0, 150)}

\* elapsed milliseconds between two animation frames
DTs == {100, 1000}

\* outcomes of the four draws of a respawn
Draws == {d \in {Draw(1, 1, 2, 2), Draw(2, 0, 3, 1)} : Accepted(d)}

\* the draws of the balls of R, every other ball being given a draw it
\* never uses
DrawsFor(R) ==
    {[i \in BallIds |-> IF i \in R THEN f[i] ELSE Draw(0, 0, 0, 0)] :
        f \in [R -> Draws]}

(***************************************************************************)
(* new Game(width, height), and the games in progress a run may start      *)
(* from: the counters a long game reaches (score, lives, numBalls, the     *)
(* first ball's health), everything else as constructed; and the same      *)
(* games one frame on, the player having touched the screen at Opening.    *)
(***************************************************************************)
NewBalls(d, n) == [i \in BallIds |-> NewBall(d, i < n)]

\* the draws the balls are constructed with
FirstDraws == {d \in {Draw(1, 1, 2, 2)} : Accepted(d)}

\* <<score, lives, numBalls, health of ball 0>>: the game as constructed,
\* a game nine kills on, and one that has lost two lives and unlocked a ball
Starts == {<<0, MAX_LIVES, 1, 3>>, <<9, MAX_LIVES, 1, 1>>, <<9, 1, 2, 1>>}

\* new Game(canvas.width, canvas.height) with the counters st
NewGame(st, d) ==
    [saber |-> NewSaber(Vec2(Width \div 2, Height \div 2)),
     balls |-> [NewBalls(d, st[3]) EXCEPT ![0].health = st[4]],
     score |-> st[1], lives |-> st[2], numBalls |-> st[3],
     done |-> FALSE, log |-> NoLog]

\* where the player of a game one frame on has touched the screen, next to
\* the first ball, and the milliseconds of that frame
Opening == Vec2(120, 70)
OpeningDT == CHOOSE dt \in DTs : \A other \in DTs : dt <= other

\* the game g one frame on, no ball of it respawning in that frame
Opened(g, d) ==
    LET ds == [i \in BallIds |-> d]
    IN  StepCommit(StepCollide(g, Opening, OpeningDT, FALSE, ds),
                   Opening, OpeningDT, ds)

\* main() up to the first frame, the freeplay box unchecked (line 465);
\* or one touch and one frame later
InitGames(games) ==
    /\ done = FALSE
    /\ freeplay = FALSE
    /\ frame = 0
    /\ sinceLoss = -1
    /\ \E new \in games, d \in FirstDraws, opened \in BOOLEAN :
       \E g \in {IF opened THEN Opened(new, d) ELSE new} :
          /\ started = opened
          /\ target = IF opened THEN Opening ELSE Zero
          /\ saber = g.saber
          /\ balls = g.balls
          /\ score = g.score
          /\ lives = g.lives
          /\ numBalls = g.numBalls
          /\ log = g.log

InitGameFrom(starts) ==
    InitGames({NewGame(st, d) : st \in starts, d \in FirstDraws})

InitGame == InitGameFrom(Starts)

\* no geometry function called on its own
NoProbe == [applied |-> FALSE]

Init == InitGame /\ probe = NoProbe

(***************************************************************************)
(* The event handlers of main().                                           *)
(***************************************************************************)
\* freeplayBox 'change'
FreeplayChange ==
    /\ freeplay' = ~freeplay
    /\ score' = 0
    /\ UNCHANGED <<started, done, lives, numBalls, saber, balls, target,
                   frame, log, sinceLoss>>

\* canvas 'mousedown'
MouseDown ==
    /\ saber' = [saber EXCEPT !.grab = TRUE]
    /\ UNCHANGED <<started, done, freeplay, score, lives, numBalls, balls,
                   target, frame, log, sinceLoss>>

\* document 'mouseup'
MouseUp ==
    /\ saber' = [saber EXCEPT !.grab = FALSE]
    /\ UNCHANGED <<started, done, freeplay, score, lives, numBalls, balls,
                   target, frame, log, sinceLoss>>

\* canvas 'mousemove': length() <= RADIUS decided on the squares
MouseMove(t) ==
    /\ target' = t
    /\ started' = IF ~started
                     /\ Dot(Subtract(t, saber.pos), Subtract(t, saber.pos))
                            <= RADIUS * RADIUS
                  THEN TRUE ELSE started
    /\ UNCHANGED <<done, freeplay, score, lives, numBalls, saber, balls,
                   frame, log, sinceLoss>>

\* canvas 'touchstart' (game.pos and game.vel, which it also sets, are
\* fields nothing reads)
TouchStart(t) ==
    /\ started' = TRUE
    /\ target' = t
    /\ UNCHANGED <<done, freeplay, score, lives, numBalls, saber, balls,
                   frame, log, sinceLoss>>

\* canvas 'touchmove'
TouchMove(t) ==
    /\ target' = t
    /\ UNCHANGED <<started, done, freeplay, score, lives, numBalls, saber,
                   balls, frame, log, sinceLoss>>

\* the guard without the game-over flag
ReturnsUnstarted == ~started

\* the guard of Game.step (line 361)
Returns == ~started \/ done

\* Game.step(target, dt) where it returns at once (lines 361-363)
StepIdle(dt) ==
    /\ Returns
    /\ log' = NoLog
    /\ UNCHANGED <<started, done, freeplay, score, lives, numBalls, saber,
                   balls, target, sinceLoss>>

\* Game.step(target, dt) where it runs: the loops up to the collision
\* loop, then the position commits, each with the draws of the balls that
\* respawn in it
StepRun(dt) ==
    /\ ~Returns
    /\ \E rc \in DrawsFor({i \in BallIds : CollideRespawns(balls[i])}) :
       \E mid \in {StepCollide(GameFields, target, dt, freeplay, rc)} :
       \E rp \in DrawsFor({i \in BallIds :
                              PositionRespawns(mid.balls[i], dt)}) :
       \E g \in {StepCommit(mid, target, dt, rp)} :
          /\ saber' = g.saber
          /\ balls' = g.balls
          /\ score' = g.score
          /\ lives' = g.lives
          /\ numBalls' = g.numBalls
          /\ done' = g.done
          /\ log' = g.log
          /\ sinceLoss' = IF \E i \in DOMAIN g.log :
                                 ~g.log[i].hurtBefore /\ g.log[i].hurt
                           THEN dt
                           ELSE IF sinceLoss >= 0 THEN sinceLoss + dt
                           ELSE sinceLoss
    /\ UNCHANGED <<started, freeplay, target>>

\* one iteration of loop(time): game.step(target, dt / 1000)
Loop(dt) ==
    /\ frame' = frame + 1
    /\ (StepIdle(dt) \/ StepRun(dt))

\* the events up to the last frame followed
Next ==
    /\ frame < MaxFrames
    /\ \/ FreeplayChange
       \/ MouseDown
       \/ MouseUp
       \/ \E t \in Targets : MouseMove(t)
       \/ \E t \in Targets : TouchStart(t)
       \/ \E t \in Targets : TouchMove(t)
       \/ \E dt \in DTs : Loop(dt)
    /\ UNCHANGED probe

Spec == Init /\ [][Next]_vars

\* frames that follow one another faster than a ball dies: loop(time) with
\* dt below BALL_DYING_TIME, as at an animation frame rate
FastDTs == {50}

MaxFastFrames == 3

\* a touch, a grab and fast frames
NextFast ==
    /\ frame < MaxFastFrames
    /\ \/ MouseDown
       \/ \E t \in Targets : TouchStart(t)
       \/ \E dt \in FastDTs : Loop(dt)
    /\ UNCHANGED probe

SpecFast == Init /\ [][NextFast]_vars

\* loop(time) ends with requestAnimationFrame(loop), so the next frame
\* always follows: the steps of SpecFast that count a frame are its Loop
\* steps, and one is possible in every state short of the last frame
FastLoop == frame < MaxFastFrames /\ frame' = frame + 1

SpecFastFair == SpecFast /\ WF_frame(FastLoop)

(***************************************************************************)
(* Ball.respawn on its own: a constructed game, and one call of respawn    *)
(* on one of its balls with the outcomes of Math.random() on a grid of     *)
(* FineDen values for the position and the two ends of the range for the   *)
(* velocity.                                                               *)
(***************************************************************************)
FineDen == 40

FineDraws ==
    {d \in {[px |-> px, py |-> py, vx |-> vx, vy |-> vy, den |-> FineDen] :
                px \in 0 .. FineDen - 1, py \in 0 .. FineDen - 1,
                vx \in {0, FineDen - 1}, vy \in {0, FineDen - 1}} :
        Accepted(d)}

InitRespawn == Init /\ ~started /\ score = 0

\* balls[i].respawn()
Respawn(i, d) ==
    /\ frame' = 1
    /\ balls' = [balls EXCEPT ![i] = respawn(balls[i], d)]
    /\ UNCHANGED <<started, done, freeplay, score, lives, numBalls, saber,
                   target, log, sinceLoss, probe>>

\* one call
NextRespawn ==
    /\ frame = 0
    /\ \E i \in BallIds : \E d \in FineDraws : Respawn(i, d)

SpecRespawn == InitRespawn /\ [][NextRespawn]_vars

(***************************************************************************)
(* quadSegmentIntersect on its own: a constructed game, and one call on    *)
(* the quad windQuad makes of the four corners of a shape, given in any    *)
(* order, with a segment between two points of a grid (the two may         *)
(* coincide) and each radius of Radii.                                     *)
(***************************************************************************)
gameVars == <<started, done, freeplay, score, lives, numBalls, saber, balls,
              target, frame, log, sinceLoss>>

GridMax == 4

Grid == {Vec2(x, y) : x \in 0 .. GridMax, y \in 0 .. GridMax}

MaxRadius == 2

Radii == 0 .. MaxRadius

\* the orders four points can be given in
Perms == {p \in [1 .. 4 -> 1 .. 4] : \A i, j \in 1 .. 4 : p[i] = p[j] => i = j}

\* a square, a kite and a dart (its corner (1, 2) is inside the triangle
\* of the other three), their corners in cyclic order
Shapes ==
    {<<Vec2(1, 1), Vec2(2, 1), Vec2(2, 2), Vec2(1, 2)>>,
     <<Vec2(0, 1), Vec2(2, 0), Vec2(4, 1), Vec2(2, 4)>>,
     <<Vec2(0, 0), Vec2(0, 4), Vec2(4, 1), Vec2(1, 2)>>}

InitIntersect ==
    /\ InitGame /\ ~started /\ score = 0
    /\ probe \in {[applied |-> FALSE, shape |-> sh,
                    pts |-> <<sh[p[1]], sh[p[2]], sh[p[3]], sh[p[4]]>>,
                    seg |-> <<a, b>>] :
                      sh \in Shapes, p \in Perms, a \in Grid, b \in Grid}

\* quadSegmentIntersect(windQuad(pts), seg, radius), radius over Radii
Intersect ==
    /\ ~probe.applied
    /\ \E quad \in {windQuad(probe.pts)} :
       probe' = [applied |-> TRUE, shape |-> probe.shape, pts |-> probe.pts,
                 seg |-> probe.seg, quad |-> quad,
                 hit |-> [r \in Radii |->
                             quadSegmentIntersect(quad, probe.seg, r)]]
    /\ UNCHANGED gameVars

SpecIntersect == InitIntersect /\ [][Intersect]_vars

(***************************************************************************)
(* The intersection test of Game.step for a saber at rest: the hilt on the *)
(* target, no angular velocity, so that the swept region is the blade.     *)
(* The swept segment of the ball goes from a point near or far from the    *)
(* blade over one of a few displacements.                                  *)
(***************************************************************************)
Hilts == {Vec2(100, 100)}

\* the blade pointing up and pointing left
Angles == {0, PI \div 2}

BallStarts ==
    {Vec2(x, y) : x \in {45, 50, 89, 100, 111, 150, 300},
                  y \in {45, 50, 89, 100, 111, 150}}

BallMoves == {Vec2(0, 0), Vec2(0, -5), Vec2(-5, 0), Vec2(5, -5)}

InitAtRest ==
    /\ InitGame /\ ~started /\ score = 0
    /\ probe \in {[applied |-> FALSE, hilt |-> h, angle |-> a,
                    seg |-> <<p, Add(p, m)>>] :
                      h \in Hilts, a \in Angles, p \in BallStarts,
                      m \in BallMoves}

\* saber.computeSweptRegion(target, dt) with the saber at rest on target,
\* then quadSegmentIntersect(pvs, bvs, ball.radius)
SweepAtRest(dt) ==
    /\ ~probe.applied
    /\ \E s \in {[NewSaber(probe.hilt) EXCEPT !.angle = probe.angle]} :
       \E sw \in {saberSweptRegion(s, probe.hilt, dt)} :
          probe' = [applied |-> TRUE, hilt |-> probe.hilt,
                    angle |-> probe.angle, seg |-> probe.seg,
                    tip |-> computeSaberPoint(s.pos, s.angle, saberLength),
                    quad |-> sw.pvs,
                    hit |-> quadSegmentIntersect(sw.pvs, probe.seg, RADIUS)]
    /\ UNCHANGED gameVars

NextAtRest == \E dt \in DTs : SweepAtRest(dt)

SpecAtRest == InitAtRest /\ [][NextAtRest]_vars

(***************************************************************************)
(* windQuad on its own: four distinct points of a small grid, in any       *)
(* order, that are the corners of a simple quadrilateral in some order.    *)
(***************************************************************************)
WindMax == 2

WindGrid == {Vec2(x, y) : x \in 0 .. WindMax, y \in 0 .. WindMax}

\* twice the signed area of the triangle a, b, p
Cross(a, b, p) == (b.x - a.x) * (p.y - a.y) - (b.y - a.y) * (p.x - a.x)

\* p in the bounding box of a and b
InBox(a, b, p) ==
    /\ Min(a.x, b.x) <= p.x /\ p.x <= Max(a.x, b.x)
    /\ Min(a.y, b.y) <= p.y /\ p.y <= Max(a.y, b.y)

Sign(v) == IF v > 0 THEN 1 ELSE IF v < 0 THEN -1 ELSE 0

\* the segments a-b and c-d share a point
SegmentsMeet(a, b, c, d) ==
    LET o1 == Sign(Cross(a, b, c))
        o2 == Sign(Cross(a, b, d))
        o3 == Sign(Cross(c, d, a))
        o4 == Sign(Cross(c, d, b))
    IN  IF o1 = 0 /\ o2 = 0 /\ o3 = 0 /\ o4 = 0
        THEN \/ InBox(a, b, c) \/ InBox(a, b, d)
             \/ InBox(c, d, a) \/ InBox(c, d, b)
        ELSE o1 * o2 <= 0 /\ o3 * o4 <= 0

\* the closed polygon q[1], q[2], q[3], q[4] is simple: its edges that are
\* not adjacent share no point
Simple(q) ==
    /\ ~SegmentsMeet(q[1], q[2], q[3], q[4])
    /\ ~SegmentsMeet(q[2], q[3], q[4], q[1])

InitWind ==
    /\ InitGame /\ ~started /\ score = 0
    /\ probe \in {[applied |-> FALSE, pts |-> <<a, b, c, d>>] :
                      a \in WindGrid, b \in WindGrid, c \in WindGrid,
                      d \in WindGrid}
    /\ Cardinality({probe.pts[i] : i \in 1 .. 4}) = 4
    /\ \E p \in Perms : Simple([i \in 1 .. 4 |-> probe.pts[p[i]]])

\* windQuad(pts)
Wind ==
    /\ ~probe.applied
    /\ probe' = [applied |-> TRUE, pts |-> probe.pts,
                 quad |-> windQuad(probe.pts)]
    /\ UNCHANGED gameVars

SpecWind == InitWind /\ [][Wind]_vars

(***************************************************************************)
(* The game with the buttons that ask for one more ball and one ball       *)
(* fewer.  probe counts the clicks and keeps the last button clicked, so   *)
(* that a click the handler returns from at once is still a step.          *)
(***************************************************************************)
MaxRequests == 3

\* <<score, lives, numBalls, health of ball 0>>: the game as constructed,
\* and a game one kill from its tenth point, eight balls unlocked
ManyBalls == MAX_NUM_BALLS - 1
StartsBalls == {<<0, MAX_LIVES, 1, 3>>, <<9, MAX_LIVES, ManyBalls, 1>>}

InitBalls ==
    /\ InitGameFrom(StartsBalls)
    /\ probe = [applied |-> FALSE, requests |-> 0, last |-> "none"]

\* a click counted and the ball count raised, no ball enabled
MoreCounting ==
    /\ probe.requests < MaxRequests
    /\ probe' = [probe EXCEPT !.requests = probe.requests + 1,
                              !.last = "more"]
    /\ numBalls' = numBalls + 1
    /\ UNCHANGED <<started, done, freeplay, score, lives, saber, balls,
                   target, frame, log, sinceLoss>>

\* moreButton 'click'
More ==
    /\ probe.requests < MaxRequests
    /\ probe' = [probe EXCEPT !.requests = probe.requests + 1,
                              !.last = "more"]
    /\ IF numBalls >= MAX_NUM_BALLS
       THEN UNCHANGED <<numBalls, balls>>
       ELSE /\ balls' = [balls EXCEPT ![numBalls].enabled = TRUE]
            /\ numBalls' = numBalls + 1
    /\ UNCHANGED <<started, done, freeplay, score, lives, saber, target,
                   frame, log, sinceLoss>>

\* lessButton 'click'
Less ==
    /\ probe.requests < MaxRequests
    /\ probe' = [probe EXCEPT !.requests = probe.requests + 1,
                              !.last = "less"]
    /\ IF numBalls <= MIN_NUM_BALLS
       THEN UNCHANGED <<numBalls, balls>>
       ELSE /\ numBalls' = numBalls - 1
            /\ balls' = [balls EXCEPT ![numBalls - 1].enabled = FALSE]
    /\ UNCHANGED <<started, done, freeplay, score, lives, saber, target,
                   frame, log, sinceLoss>>

\* clicks, a touch and fast frames
NextBalls ==
    \/ More
    \/ Less
    \/ /\ frame < MaxFastFrames
       /\ \/ \E t \in Targets : TouchStart(t)
          \/ \E dt \in FastDTs : Loop(dt)
       /\ UNCHANGED probe

SpecBalls == InitBalls /\ [][NextBalls]_vars

(***************************************************************************)
(* Ball.collide on its own, on balls at the edges of the screen, on and    *)
(* under the bumpers and in the gap between them.                          *)
(***************************************************************************)
CollideXs == {5, 10, 50, 200, 230, 300, 390, 395}
CollideYs == {5, 10, 200, 380, 405, 410, 411, 415, 420, 460}
CollideVels ==
    {Vec2(0, 0), Vec2(0, 600), Vec2(-300, -300), Vec2(300, 300),
     Vec2(300, -300), Vec2(-300, 300)}

InitCollide ==
    /\ InitGame /\ ~started /\ score = 0
    /\ probe \in {[applied |-> FALSE,
                    before |-> [NewBall(d, e) EXCEPT !.pos = Vec2(x, y),
                                                     !.lastPos = Vec2(x, y),
                                                     !.vel = v,
                                                     !.dying = dy]] :
                      d \in FirstDraws, e \in BOOLEAN, dy \in BOOLEAN,
                      x \in CollideXs, y \in CollideYs, v \in CollideVels}

\* ball.collide(bumpers), a respawn in it drawing d; bumped is the ball
\* as the bumper loop leaves it
Collide(d) ==
    /\ ~probe.applied
    /\ probe' = [applied |-> TRUE, before |-> probe.before,
                 bumped |-> IF ~probe.before.enabled \/ probe.before.dying
                            THEN probe.before
                            ELSE CollideBumpers(probe.before),
                 respawned |-> CollideRespawns(probe.before),
                 draw |-> d,
                 after |-> collide(probe.before, d)]
    /\ UNCHANGED gameVars

NextCollide == \E d \in Draws : Collide(d)

SpecCollide == InitCollide /\ [][NextCollide]_vars

(***************************************************************************)
(* The game on its last life, one kill from its tenth point, with two      *)
(* balls in play and the second one hit twice already.                     *)
(***************************************************************************)
LastLife ==
    {[NewGame(<<9, 1, 2, h>>, d) EXCEPT !.balls[1].health = 1] :
        h \in {1, 3}, d \in FirstDraws}

InitLast == InitGames(LastLife) /\ probe = NoProbe

\* pointer positions: those of Targets and wider jumps
LastTargets == Targets \cup {Vec2(0, 300), Vec2(300, 70), Vec2(120, 300)}

\* touches, grabs and frames
NextLast ==
    /\ frame < MaxFrames
    /\ \/ MouseDown
       \/ MouseUp
       \/ \E t \in LastTargets : TouchStart(t)
       \/ \E t \in LastTargets : TouchMove(t)
       \/ \E dt \in DTs : Loop(dt)
    /\ UNCHANGED probe

SpecLast == InitLast /\ [][NextLast]_vars

(***************************************************************************)
(* One step of the saber alone: Saber.updateVelocity, then                 *)
(* Saber.updatePosition, as Game.step calls them, from every state of a    *)
(* swinging or grabbed blade below and for every target and frame time.    *)
(***************************************************************************)
\* blade angles in (-pi, pi]
SwingAngles == {0, PI \div 2, PI, -(PI \div 2), 3000, -3000}

\* angular velocities within the clamp, 10 * pi and 12.5 * pi rad/s among them
SwingAngVels ==
    {0, 1000, 10 * PI, -10 * PI, -((25 * PI) \div 2), ANG_VEL_MAX, -ANG_VEL_MAX}

\* hilt velocities left by the previous step
SwingVels == {Vec2(0, 0), Vec2(0, -500)}

\* the pointer at rest on the hilt, and a jump left, right and up
SwingTargets == {Vec2(100, 100), Vec2(0, 100), Vec2(200, 100), Vec2(100, 0)}

\* frame times in milliseconds
SwingDTs == {10, 17, 100}

InitSwing ==
    /\ InitGame /\ ~started /\ score = 0
    /\ probe \in {[applied |-> FALSE,
                    before |-> [NewSaber(Vec2(100, 100)) EXCEPT
                                   !.angle = a, !.angVel = w, !.vel = v,
                                   !.grab = g],
                    target |-> t] :
                      a \in SwingAngles, w \in SwingAngVels,
                      v \in SwingVels, g \in BOOLEAN, t \in SwingTargets}

\* saber.updateVelocity(target, dt); saber.updatePosition(target, dt)
Swing(dt) ==
    /\ ~probe.applied
    /\ \E s1 \in {saberUpdateVelocity(probe.before, probe.target, dt)} :
          probe' = [applied |-> TRUE, before |-> probe.before,
                    target |-> probe.target, dt |-> dt, mid |-> s1,
                    after |-> saberUpdatePosition(s1, probe.target, dt)]
    /\ UNCHANGED gameVars

NextSwing == \E dt \in SwingDTs : Swing(dt)

SpecSwing == InitSwing /\ [][NextSwing]_vars

(***************************************************************************)
(* Properties of Game.step.  A step of the loop is a transition that       *)
(* counts a frame; log then holds what its collision loop did.             *)
(***************************************************************************)
StepTaken == frame' = frame + 1

\* the callback of entry e killed its ball
Kills(e) == ~e.dying /\ e.marked

\* the callback of entry e lost a life
LosesLife(e) == ~e.hurtBefore /\ e.hurt

ScoredOncePerDeath ==
    [][/\ StepTaken =>
             /\ score' = score + Cardinality({i \in DOMAIN log' :
                                                Kills(log'[i])})
             /\ \A i \in DOMAIN log' :
                    log'[i].dying =>
                       /\ balls[i].dying
                       /\ log'[i].score = log'[i].scoreBefore
                       /\ log'[i].health = log'[i].healthBefore
                       /\ log'[i].healthBefore = balls[i].health
       /\ \A i \in BallIds :
             (balls[i].dying /\ balls'[i].dying) =>
                balls'[i].health = balls[i].health
       /\ ~StepTaken => score' \in {score, 0}]_vars

\* a dying ball whose swept segment intersects the swept quad again
DyingBallSweptAgain ==
    \E i \in DOMAIN log : log[i].dying /\ log[i].overlap

\* C3: a ball whose swept segment intersected the swept quad in the last
\* step, and that has not respawned since, loses no health in this step
\* whatever the hit speed; a ball loses health only when it did not
\* intersect in the last step it was tested in, or has respawned since.
LatchHoldsDamage ==
    [][StepTaken =>
          \A i \in DOMAIN log' :
             LET e == log'[i]
                 touching == /\ i \in DOMAIN log
                             /\ log[i].tested /\ log[i].overlap
                             /\ ~log[i].marked
                             /\ ~e.fresh
             IN  e.tested =>
                    /\ touching => e.latch /\ e.health = e.healthBefore
                    /\ e.health < e.healthBefore => ~touching /\ ~e.latch]_vars

\* a latched ball hit at DAMAGE_SPEED or more, its health kept
LatchedHardHit ==
    \E i \in DOMAIN log :
        /\ log[i].tested /\ log[i].overlap /\ log[i].latch
        /\ log[i].hitSpeed >= DAMAGE_SPEED
        /\ log[i].health = log[i].healthBefore

\* the balls of the log in index order, the order of the collision loop
FirstLogged == CHOOSE i \in DOMAIN log : \A k \in DOMAIN log : i <= k

\* C4: a callback that finds the saber hurt loses no life, in the step of
\* the loss or in a later one; after a loss the saber is hurt exactly as long
\* as the dt of the position commits since, the loss step's included, has
\* not exceeded SABER_HURT_TIME; a step lowers lives by at most one.
HurtCooldown ==
    /\ \A i \in DOMAIN log :
          /\ log[i].hurtBefore => ~LosesLife(log[i])
          /\ log[i].hurtBefore => log[i].lives >= log[i].livesBefore
          /\ log[i].lives >= log[i].livesBefore - 1
    /\ Cardinality({i \in DOMAIN log : LosesLife(log[i])}) <= 1
    /\ log # NoLog => lives >= log[FirstLogged].livesBefore - 1
    /\ sinceLoss >= 0 => (saber.hurt <=> sinceLoss <= SABER_HURT_TIME)
    /\ sinceLoss < 0 => ~saber.hurt

\* in a step after the one of the loss, a ball within 2 * RADIUS of the
\* hilt costs no life because the saber is still hurt
SparedWhileHurt ==
    /\ saber.hurt
    /\ \E i \in DOMAIN log :
          /\ ~log[i].dying /\ log[i].near /\ log[i].hurtBefore
          /\ log[i].lives = log[i].livesBefore
    /\ \A i \in DOMAIN log : ~LosesLife(log[i])

\* C5: in a step outside freeplay, the callback of a ball that is not dying
\* and is within 2 * RADIUS of the hilt, finding the saber not hurt and
\* lives at 1, sets done; a running step sets done exactly when one of its
\* callbacks loses the last life, and nothing but a step changes done.
GameOverAtZeroLives ==
    [][/\ StepTaken =>
             /\ \A i \in DOMAIN log' :
                    LET e == log'[i]
                    IN  (/\ ~freeplay /\ ~e.dying /\ e.near
                         /\ ~e.hurtBefore /\ e.livesBefore = 1)
                           => LosesLife(e) /\ e.lives = 0 /\ e.done /\ done'
             /\ ~done =>
                    (done' <=> \E i \in DOMAIN log' :
                                  /\ LosesLife(log'[i])
                                  /\ log'[i].livesBefore <= 1)
       /\ ~StepTaken => done' = done]_vars

\* the last life lost to a ball at the hilt, the game over
LastLifeLost ==
    /\ done /\ lives = 0
    /\ \E i \in DOMAIN log :
          /\ LosesLife(log[i]) /\ log[i].near /\ log[i].livesBefore = 1
          /\ log[i].done

\* C6: a step taken when the game has not started or is over leaves score,
\* lives, numBalls, the saber and every ball as they were; no transition
\* clears done.
IdleStepChangesNothing ==
    [][/\ (StepTaken /\ (~started \/ done)) =>
             UNCHANGED <<started, done, score, lives, numBalls, saber, balls>>
       /\ done => done']_vars

\* a step was taken after the game ended
SteppedAfterGameOver == done /\ frame > 0 /\ log = NoLog

\* C7: a step in freeplay loses no life, does not mark the saber hurt and
\* does not set done, however near the hilt a ball is.
FreeplayCostsNothing ==
    [][(StepTaken /\ freeplay) =>
          /\ lives' >= lives
          /\ saber'.hurt => saber.hurt
          /\ done' = done
          /\ \A i \in DOMAIN log' :
                /\ ~LosesLife(log'[i])
                /\ log'[i].lives >= log'[i].livesBefore]_vars

\* in freeplay, a ball within 2 * RADIUS of the hilt of a saber that is not
\* hurt, and no life lost
NearHiltInFreeplay ==
    /\ freeplay
    /\ \E i \in DOMAIN log :
          /\ ~log[i].dying /\ log[i].near
          /\ ~log[i].hurtBefore /\ ~log[i].hurt
          /\ log[i].lives = log[i].livesBefore

\* the enabled balls
Enabled(bs) == {i \in BallIds : bs[i].enabled}

\* C8: a step in which a kill raises the score to a multiple of
\* NEW_BALL_EVERY_N_POINTS while numBalls < MAX_NUM_BALLS enables exactly
\* the ball at index numBalls and adds one to numBalls; no other transition
\* changes numBalls or which balls are enabled.
UnlockOnTenthKill ==
    [][LET unlocking ==
               {i \in DOMAIN log' :
                   /\ Kills(log'[i])
                   /\ log'[i].score % NEW_BALL_EVERY_N_POINTS = 0
                   /\ log'[i].numBallsBefore < MAX_NUM_BALLS}
       IN  /\ Enabled(balls) = 0 .. numBalls - 1
           /\ IF StepTaken /\ unlocking # {}
              THEN /\ numBalls' = numBalls + 1
                   /\ Enabled(balls') = Enabled(balls) \cup {numBalls}
              ELSE /\ numBalls' = numBalls
                   /\ Enabled(balls') = Enabled(balls)]_vars

\* a kill at a score that is a multiple of ten has enabled the next ball
UnlockedByKill ==
    \E i \in DOMAIN log :
        /\ Kills(log[i])
        /\ log[i].score % NEW_BALL_EVERY_N_POINTS = 0
        /\ log[i].numBalls = log[i].numBallsBefore + 1
        /\ balls[log[i].numBallsBefore].enabled
        /\ numBalls = log[i].numBalls

\* lives after the callback of entry e, from lives before it
LivesAfter(e) ==
    LET left == IF LosesLife(e) THEN e.livesBefore - 1 ELSE e.livesBefore
    IN  IF Kills(e) /\ e.score % NEW_LIFE_EVERY_N_POINTS = 0
        THEN Min(left + 1, MAX_LIVES)
        ELSE left

\* C9: lives stays in 0 .. MAX_LIVES; a callback changes it by the loss of
\* one life from a positive value and, at a kill that raises the score to a
\* multiple of NEW_LIFE_EVERY_N_POINTS, to min(lives + 1, MAX_LIVES); the
\* callbacks of a step hand lives on in index order, and nothing else
\* changes it.
LivesWithinRange ==
    [][/\ lives \in 0 .. MAX_LIVES /\ lives' \in 0 .. MAX_LIVES
       /\ ~StepTaken => lives' = lives
       /\ StepTaken =>
             /\ \A i \in DOMAIN log' :
                    /\ LosesLife(log'[i]) => log'[i].livesBefore > 0
                    /\ log'[i].lives = LivesAfter(log'[i])
                    /\ log'[i].livesBefore =
                          IF \E k \in DOMAIN log' : k < i
                          THEN log'[CHOOSE k \in DOMAIN log' :
                                      /\ k < i
                                      /\ \A j \in DOMAIN log' :
                                            j < i => j <= k].lives
                          ELSE lives
             /\ lives' = IF log' = NoLog THEN lives
                         ELSE log'[CHOOSE k \in DOMAIN log' :
                                     \A j \in DOMAIN log' : j <= k].lives]_vars

\* a kill at a multiple of ten with every life in hand leaves MAX_LIVES
RestoreAtMaxLives ==
    \E i \in DOMAIN log :
        /\ Kills(log[i])
        /\ log[i].score % NEW_LIFE_EVERY_N_POINTS = 0
        /\ log[i].livesBefore = MAX_LIVES /\ log[i].lives = MAX_LIVES

\* C10: every ball the collision loop tests against the swept quad went
\* through collide and updateVelocity, enabled, earlier in the same step.
TestedAfterOwnUpdate ==
    \A i \in DOMAIN log : log[i].tested => log[i].prepared

\* C11: a ball that is disabled before and after a step is the same ball
\* after it (position, last position, velocity, health, dying, dyingTime,
\* inCollision, lifetime), and the collision loop did nothing for it: it
\* has no entry in the log, so no change of score, lives or hurt is its.
DisabledBallUntouched ==
    [][StepTaken =>
          \A i \in BallIds :
              (~balls[i].enabled /\ ~balls'[i].enabled) =>
                  /\ balls'[i] = balls[i]
                  /\ i \notin DOMAIN log']_vars

\* a step ran, with an enabled ball in the log, past a disabled ball
SteppedPastDisabledBall ==
    /\ log # NoLog
    /\ \E i \in BallIds : ~balls[i].enabled

\* the velocity Ball.updateVelocity leaves a dying ball: gravity and ten
\* times the drag of a live ball over dt
DyingVelocity(v, dt) ==
    LET drag == Scale(Scale(v, Length(v), 1000), 10 * BALL_DRAG, 1)
    IN  Add(v, Scale(Subtract(Vec2(0, GRAVITY), drag), dt, 1000))

\* C12: a ball that is dying when a step starts is ignored by the step's
\* collision resolution: its callback leaves health, lives, hurt, score
\* and done as it found them and tests nothing, and while the ball stays
\* dying its health and its inCollision latch are unchanged, its velocity
\* is the old one under gravity and tenfold drag, and its position is the
\* old one advanced by that velocity (no bumper, wall or saber acted).
DyingBallIgnored ==
    [][StepTaken =>
          \A i \in BallIds :
              (balls[i].enabled /\ balls[i].dying /\ i \in DOMAIN log') =>
                  LET e == log'[i] IN
                  /\ e.dying /\ ~e.tested /\ e.hitSpeed = 0
                  /\ e.health = e.healthBefore
                  /\ e.lives = e.livesBefore /\ e.score = e.scoreBefore
                  /\ e.hurt = e.hurtBefore
                  /\ balls'[i].dying =>
                        /\ balls'[i].health = balls[i].health
                        /\ balls'[i].inCollision = balls[i].inCollision
                        /\ balls'[i].vel = DyingVelocity(balls[i].vel, e.dt)
                        /\ balls'[i].lastPos = balls[i].pos
                        /\ balls'[i].pos =
                               Add(balls[i].pos,
                                   Scale(balls'[i].vel, e.dt, 1000))]_vars

\* a ball that was dying when the last step started is still dying after
\* it, and its swept segment overlapped the swept quad of the saber
StillDyingUnderSaber ==
    \E i \in DOMAIN log :
        log[i].dying /\ log[i].overlap /\ balls[i].dying

\* ball i as Ball.respawn leaves it when the position commit calls it
Respawned(b) == ~b.dying /\ b.dyingTime = 0 /\ b.health = 3 /\ ~b.inCollision

\* the frames a ball killed in a step needs at most to respawn, the
\* step of the kill not counted
FramesToRespawn ==
    BALL_DYING_TIME \div (CHOOSE dt \in FastDTs : \A other \in FastDTs : dt <= other)

\* C13: a ball that is dying when the collision loop of a step is over
\* respawns in the position commit of that step exactly when its dying
\* time plus the step's dt exceeds BALL_DYING_TIME, and otherwise stays
\* dying with the dt added; and while frames follow and the game is not
\* over, every dying ball is alive again later.
RespawnWhenDyingTimeExceeded ==
    /\ [][StepTaken =>
             \A i \in DOMAIN log' :
                 log'[i].marked =>
                     LET acc == balls[i].dyingTime + log'[i].dt IN
                     IF acc > BALL_DYING_TIME
                     THEN Respawned(balls'[i])
                     ELSE balls'[i].dying /\ balls'[i].dyingTime = acc]_vars
    /\ \A i \in BallIds :
           (balls[i].dying /\ frame <= MaxFastFrames - FramesToRespawn)
               ~> (~balls[i].dying \/ done)

\* a ball went through a step dying with its dying time at the limit, not
\* over it, and the commit of the next step respawned it
RespawnedPastLimit ==
    \E i \in DOMAIN log :
        /\ log[i].dying /\ Respawned(balls[i])
        /\ log[i].dt < BALL_DYING_TIME

\* C14: after Ball.respawn the position of the ball satisfies
\* radius <= x <= arenaWidth - radius and radius <= y <= 0.5 * arenaHeight,
\* whatever the draws (every ball of SpecRespawn is where a respawn put it).
RespawnInBox ==
    \A i \in BallIds :
        /\ RADIUS <= balls[i].pos.x /\ balls[i].pos.x <= Width - RADIUS
        /\ RADIUS <= balls[i].pos.y /\ 2 * balls[i].pos.y <= Height

Edges(q) == {<<q[i], q[(i % 4) + 1]>> : i \in 1 .. 4}

\* the four corners q are in convex position, in cyclic order
ConvexPosition(q) ==
    \/ \A i \in 1 .. 4 : Cross(q[i], q[(i % 4) + 1], q[((i + 1) % 4) + 1]) > 0
    \/ \A i \in 1 .. 4 : Cross(q[i], q[(i % 4) + 1], q[((i + 1) % 4) + 1]) < 0

\* p inside the convex polygon q or on its boundary
InsideOrOn(q, p) ==
    \/ \A e \in Edges(q) : Cross(e[1], e[2], p) >= 0
    \/ \A e \in Edges(q) : Cross(e[1], e[2], p) <= 0

\* the distance from p to the segment a-b is at most r
PointNear(p, a, b, r) ==
    LET ab == Subtract(b, a)
        ap == Subtract(p, a)
        t == Dot(ap, ab)
        l == Dot(ab, ab)
        c == Cross(a, b, p)
    IN  IF t <= 0 THEN Dot(ap, ap) <= r * r
        ELSE IF t >= l THEN Dot(Subtract(p, b), Subtract(p, b)) <= r * r
        ELSE c * c <= r * r * l

\* the distance between the segments a-b and c-d is at most r
SegmentsNear(a, b, c, d, r) ==
    \/ SegmentsMeet(a, b, c, d)
    \/ PointNear(a, c, d, r) \/ PointNear(b, c, d, r)
    \/ PointNear(c, a, b, r) \/ PointNear(d, a, b, r)

\* the convex polygon q and the segment seg inflated by r share a point
Overlap(q, seg, r) ==
    \/ InsideOrOn(q, seg[1])
    \/ \E e \in Edges(q) : SegmentsNear(e[1], e[2], seg[1], seg[2], r)

\* p on an edge of the polygon q
OnBoundary(q, p) ==
    \E e \in Edges(q) : Cross(e[1], e[2], p) = 0 /\ InBox(e[1], e[2], p)

\* the edges of q that the ray from p towards greater x passes through
RayCrossings(q, p) ==
    {e \in Edges(q) :
        /\ (e[1].y > p.y) # (e[2].y > p.y)
        /\ Cross(e[1], e[2], p) * Sign(e[2].y - e[1].y) > 0}

\* p inside the simple polygon q and on none of its edges
StrictlyInside(q, p) ==
    ~OnBoundary(q, p) /\ Cardinality(RayCrossings(q, p)) % 2 = 1

\* C16: quadSegmentIntersect on a quad wound from four points in convex
\* position returns true exactly when the quad and the segment inflated
\* by radius overlap, for every segment and every radius.
IntersectIsExact ==
    (probe.applied /\ ConvexPosition(probe.shape)) =>
        \A r \in Radii : probe.hit[r] <=> Overlap(probe.shape, probe.seg, r)

\* C17: quadSegmentIntersect with radius 0 returns true whenever an
\* endpoint of the segment is strictly inside the wound quad, whatever the
\* other endpoint and the order the four points were given to windQuad in.
EndpointInsideIntersects ==
    probe.applied =>
        ((StrictlyInside(probe.quad, probe.seg[1])
             \/ StrictlyInside(probe.quad, probe.seg[2]))
            => probe.hit[0])

\* C17, for four points in convex position: quadSegmentIntersect with
\* radius 0 returns true whenever an endpoint of the segment is strictly
\* inside the quad, whatever the other endpoint and the order the four
\* points were given to windQuad in.
EndpointInsideConvexIntersects ==
    (probe.applied /\ ConvexPosition(probe.shape)) =>
        ((StrictlyInside(probe.shape, probe.seg[1])
             \/ StrictlyInside(probe.shape, probe.seg[2]))
            => probe.hit[0])

\* the call was made on a quad in convex position with one end of the
\* segment strictly inside it, the other strictly outside, and the points
\* not given in cyclic order
InsideEndpointTested ==
    /\ probe.applied
    /\ ConvexPosition(probe.shape)
    /\ probe.pts # probe.quad
    /\ StrictlyInside(probe.shape, probe.seg[2])
    /\ ~InsideOrOn(probe.shape, probe.seg[1])

\* C18: for a fixed quad and segment, quadSegmentIntersect true at a
\* radius is true at every greater radius.
RadiusMonotone ==
    probe.applied =>
        \A r1, r2 \in Radii : (r1 < r2 /\ probe.hit[r1]) => probe.hit[r2]

\* the call returned false at one radius and true at a greater one
TrueFromSomeRadius ==
    /\ probe.applied
    /\ \E r \in Radii : r > 0 /\ ~probe.hit[r - 1] /\ probe.hit[r]

\* p on the segment a-b
OnSegment(a, b, p) == Cross(a, b, p) = 0 /\ InBox(a, b, p)

\* C19: for a saber at rest, quadSegmentIntersect with the ball radius is
\* true for a ball swept segment that lies on the blade between hilt and
\* tip, and false for one whose distance from the blade exceeds the
\* radius.
BladeAtRestTest ==
    probe.applied =>
        /\ (OnSegment(probe.hilt, probe.tip, probe.seg[1])
               /\ OnSegment(probe.hilt, probe.tip, probe.seg[2]))
              => probe.hit
        /\ ~SegmentsNear(probe.hilt, probe.tip, probe.seg[1], probe.seg[2],
                         RADIUS)
              => ~probe.hit

Close(a, b) == 100 * Abs(a - b) <= 200 + Max(Abs(a), Abs(b))

\* the velocity v of a ball after the response to the contact of entry e:
\* (u.v)u + max(vpn, -vbn)n if vbn < vpn, and unchanged otherwise, so
\* that its component along n is at least vpn and the one along u is kept
Responded(e, v) ==
    /\ 100 * (e.vpn - RDiv(Dot(e.n, v), 1000)) <= 200 + Abs(e.vpn)
    /\ (e.vbn < e.vpn) => Close(RDiv(Dot(e.n, v), 1000), Max(e.vpn, -e.vbn))
    /\ Close(RDiv(Dot(e.u, v), 1000), RDiv(Dot(e.u, e.vel), 1000))
    /\ (e.vbn >= e.vpn) => v = e.vel
    /\ (e.vbn < e.vpn) =>
           v = Add(Scale(e.u, RDiv(Dot(e.u, e.vel), 1000), 1000),
                   Scale(e.n, Max(e.vpn, -e.vbn), 1000))

AngVelWithinLimit ==
    probe.applied =>
        /\ -ANG_VEL_MAX <= probe.mid.angVel /\ probe.mid.angVel <= ANG_VEL_MAX
        /\ probe.after.angVel = probe.mid.angVel

\* a jump of the pointer at a short frame time drove the blade to the limit
\* from below it, on the negative side
AngVelClamped ==
    /\ probe.applied /\ ~probe.before.grab
    /\ probe.before.angVel > -ANG_VEL_MAX
    /\ probe.mid.angVel = -ANG_VEL_MAX

\* C23: while the blade is grabbed a step forces the angular velocity to 0
\* and leaves the blade angle as it was, whatever the hilt's acceleration
\* and the angular velocity before the step
GrabbedBladeKeepsAngle ==
    (probe.applied /\ probe.before.grab) =>
        /\ probe.mid.angVel = 0 /\ probe.after.angVel = 0
        /\ probe.after.angle = probe.before.angle

\* a blade grabbed in mid-swing, off the vertical, while the hilt jumps
GrabbedInMidSwing ==
    /\ probe.applied /\ probe.before.grab
    /\ probe.before.angVel = -ANG_VEL_MAX
    /\ probe.before.angle = 3000
    /\ probe.target # probe.before.pos
    /\ probe.after.pos = probe.target

\* the angle Saber.updatePosition hands to wrapToPi
Advanced == probe.mid.angle + RDiv(probe.dt * probe.mid.angVel, 1000)

\* C24: after every position commit the blade angle lies in (-pi, pi], the
\* value -pi excluded, and is congruent to angle + dt * angVel modulo 2 * pi
AngleWrappedHalfOpen ==
    probe.applied =>
        /\ -PI < probe.after.angle /\ probe.after.angle <= PI
        /\ (probe.after.angle - Advanced) % (2 * PI) = 0

\* C24, with the interval closed: after every position commit the blade
\* angle lies in [-pi, pi] and is congruent to angle + dt * angVel modulo
\* 2 * pi
AngleWrappedClosed ==
    probe.applied =>
        /\ -PI <= probe.after.angle /\ probe.after.angle <= PI
        /\ (probe.after.angle - Advanced) % (2 * PI) = 0

\* a swing that carried the blade more than a full turn past -pi
WrappedFromBelow ==
    /\ probe.applied
    /\ Advanced < -3 * PI
    /\ probe.after.angle = Advanced + 4 * PI

\* a click on the button named b
Requested(b) == probe'.requests = probe.requests + 1 /\ probe'.last = b

\* C25: through every sequence of clicks on the two buttons and of
\* score-driven unlocks the ball count stays within 0 .. MAX_NUM_BALLS and
\* ball i is enabled exactly when i < numBalls, and a click for one more
\* ball at MAX_NUM_BALLS or for one ball fewer at 0 changes nothing of the
\* game
BallCountWithinBounds ==
    /\ [](/\ MIN_NUM_BALLS <= numBalls /\ numBalls <= MAX_NUM_BALLS
          /\ MIN_NUM_BALLS = 0 /\ MAX_NUM_BALLS = 10
          /\ \A i \in BallIds : balls[i].enabled <=> i < numBalls)
    /\ [][(\/ Requested("more") /\ numBalls = MAX_NUM_BALLS
           \/ Requested("less") /\ numBalls = MIN_NUM_BALLS)
              => UNCHANGED gameVars]_vars

\* the last ball unlocked by the tenth point, and one more asked for
AllBallsAsked ==
    /\ numBalls = MAX_NUM_BALLS
    /\ \A i \in BallIds : balls[i].enabled
    /\ \E i \in DOMAIN log : log[i].numBalls = log[i].numBallsBefore + 1
    /\ probe.requests = 1 /\ probe.last = "more"

\* the points pts are in convex position: some cyclic order of them turns
\* the same way at every corner
InConvexPosition(pts) ==
    \E p \in Perms : ConvexPosition([i \in 1 .. 4 |-> pts[p[i]]])

\* orth of every edge of q, in cyclic order, has the other vertices of q on
\* its non-negative side
OrthPointsInward(q) ==
    \A i \in 1 .. 4 : \A j \in 1 .. 4 :
        Dot(Orth(Subtract(q[(i % 4) + 1], q[i])), Subtract(q[j], q[i])) >= 0

\* C26: for four points in convex position, in any input order, windQuad
\* returns them in the one orientation in which orth of every edge is the
\* inward normal (the other two vertices on its non-negative side), so
\* that its negation is the outward normal
WindOrientsConvex ==
    (probe.applied /\ InConvexPosition(probe.pts)) =>
        OrthPointsInward(probe.quad)

\* four points in convex position given in the opposite orientation and
\* returned reordered
WoundFromOppositeOrder ==
    /\ probe.applied
    /\ ConvexPosition(probe.pts)
    /\ ~OrthPointsInward(probe.pts)
    /\ probe.quad # probe.pts
    /\ OrthPointsInward(probe.quad)

\* the bumpers the ball b penetrates
Penetrated(b) == {k \in DOMAIN bumpers : Penetration(b, k) > 0}

\* the ball m is the ball b resolved against bumper k alone: moved along
\* the normal until it touches the bumper's line (to the nearest unit), the
\* normal component of its velocity negated and the tangential one kept if
\* it moved into the bumper, its velocity untouched otherwise
ResolvedAgainst(b, m, k) ==
    /\ Abs(Penetration(m, k)) <= 1000
    /\ Abs(Dot(Subtract(m.pos, b.pos), bumpers[k].orth)) <= 1000
    /\ IF Dot(b.vel, bumpers[k].normal) > 0
       THEN /\ Close(RDiv(Dot(m.vel, bumpers[k].normal), 1000),
                     -RDiv(Dot(b.vel, bumpers[k].normal), 1000))
            /\ Close(RDiv(Dot(m.vel, bumpers[k].orth), 1000),
                     RDiv(Dot(b.vel, bumpers[k].orth), 1000))
       ELSE m.vel = b.vel

\* C27: Ball.collide resolves at most one bumper per call, the first in
\* list order with d > 0: the ball is moved by -d * normal and reflected
\* only if vel.normal > 0; a later bumper neither moves the ball nor
\* changes its velocity, and a ball penetrating no bumper is left alone
OneBumperPerCall ==
    (probe.applied /\ probe.before.enabled /\ ~probe.before.dying) =>
        LET hit == Penetrated(probe.before)
        IN  IF hit = {} THEN probe.bumped = probe.before
            ELSE ResolvedAgainst(probe.before, probe.bumped,
                                 CHOOSE k \in hit : \A j \in hit : k <= j)

\* a ball in the gap, falling into both bumpers' lines: resolved against
\* the first and still penetrating the second
SecondBumperLeft ==
    /\ probe.applied /\ probe.before.enabled /\ ~probe.before.dying
    /\ Penetrated(probe.before) = {1, 2}
    /\ Penetration(probe.bumped, 2) > 1000
    /\ Dot(probe.before.vel, bumpers[1].normal) > 0
    /\ Dot(probe.bumped.vel, bumpers[2].normal) > 0

\* Ball.collide ended in respawn: the ball is where the draw put it
CollideRespawned ==
    /\ probe.after.pos = RespawnPos(probe.draw)
    /\ probe.after.vel = RespawnVel(probe.draw)
    /\ probe.after.health = 3

\* the ball after Ball.collide is inside the left, right and top edges
WithinEdges ==
    /\ RADIUS <= probe.after.pos.x /\ probe.after.pos.x <= Width - RADIUS
    /\ RADIUS <= probe.after.pos.y

\* a ball the call does not respawn is clamped to the edges it was beyond,
\* with the velocity component flipped only if it pointed outward, and
\* keeps its place and velocity along the other edges
ClampedToEdges ==
    LET m == probe.bumped
        a == probe.after
    IN  /\ a.pos.x = Max(RADIUS, Min(Width - RADIUS, m.pos.x))
        /\ a.pos.y = Max(RADIUS, m.pos.y)
        /\ a.vel.x = IF m.pos.x < RADIUS THEN Abs(m.vel.x)
                     ELSE IF m.pos.x > Width - RADIUS THEN -Abs(m.vel.x)
                     ELSE m.vel.x
        /\ a.vel.y = IF m.pos.y < RADIUS THEN Abs(m.vel.y) ELSE m.vel.y

\* C28: after Ball.collide on an enabled, non-dying ball the ball is within
\* the left, right and top edges, its velocity does not point out through
\* an edge it was clamped to, and a ball that was below the bottom edge by
\* more than its radius (y > yMax + radius) has been respawned
CollideKeepsInArena ==
    (probe.applied /\ probe.before.enabled /\ ~probe.before.dying) =>
        /\ WithinEdges
        /\ ~CollideRespawned => ClampedToEdges
        /\ probe.before.pos.y > Height + RADIUS => CollideRespawned

\* the same with the bottom edge tested where the code tests it, on the
\* ball as the bumper loop leaves it
CollideKeepsInArenaAfterBumpers ==
    (probe.applied /\ probe.before.enabled /\ ~probe.before.dying) =>
        /\ WithinEdges
        /\ ~CollideRespawned => ClampedToEdges
        /\ probe.bumped.pos.y > Height + RADIUS <=> CollideRespawned

\* C29: whenever the game-over flag is set, lives is 0
GameOverWithoutLives == done => lives = 0

\* the step kills ball i
KilledInStep(i) == i \in DOMAIN log' /\ log'[i].marked

\* the step takes one off the health of ball i
DamagedInStep(i) ==
    i \in DOMAIN log' /\ log'[i].health < log'[i].healthBefore

\* C30: at every step boundary each ball's health is 0, 1, 2 or 3 and the
\* ball is dying exactly when its health is 0; and health rises only in a
\* step that respawns the ball, which was dying (before the step or by a
\* kill in it) or had fallen through the bottom edge: to 3, or to 2 when
\* the blade hits the ball in the step of its fall, after the respawn
HealthAndDying ==
    /\ [](\A i \in BallIds :
            /\ balls[i].health \in 0 .. 3
            /\ balls[i].dying <=> balls[i].health = 0)
    /\ [][\A i \in BallIds :
            balls'[i].health > balls[i].health =>
                /\ balls'[i].health =
                       IF CollideRespawns(balls[i]) /\ DamagedInStep(i)
                       THEN 2 ELSE 3
                /\ \/ balls[i].dying
                   \/ KilledInStep(i)
                   \/ CollideRespawns(balls[i])
                /\ ~balls'[i].dying /\ balls'[i].dyingTime = 0]_vars

\* a ball hit once and another killed, dying across a step boundary
WoundedAndDying ==
    /\ frame > 0
    /\ \E i \in BallIds :
          balls[i].enabled /\ balls[i].dying /\ balls[i].health = 0
    /\ \E i \in BallIds :
          balls[i].enabled /\ ~balls[i].dying /\ balls[i].health = 2

====
